---- MODULE Spec2Model ----
(***************************************************************************)
(* Model of the two search pipelines of the repository:                    *)
(*   DeepSearchAgent.search_and_summarize      (src/search_agent.py)       *)
(*   AdvancedSearchAgent.search_and_summarize  (src/advanced_search_agent.py)*)
(* Strings the code transforms (keyword, language, output format) are      *)
(* sequences of one-character strings, so that str.lower() and             *)
(* str.replace() are computed and not assumed.                             *)
(***************************************************************************)
EXTENDS Integers, Sequences, FiniteSets, TLC

VARIABLES variant, format_input, keywords, options, idx, pc, inflight, trace,
          now, start_time, duration, task, result, result_text, files,
          output_file, results, outcome

vars == <<variant, format_input, keywords, options, idx, pc, inflight, trace,
          now, start_time, duration, task, result, result_text, files,
          output_file, results, outcome>>

(* ------------------------------ bounds --------------------------------- *)
MaxKeywords == 2
MaxDepth == 4
MaxTime == 1

(* --------------------------- program constants ------------------------- *)
DefaultDepth == 2
DefaultMaxResults == 10

(* ------------------------------ strings -------------------------------- *)
S_english == <<"e","n","g","l","i","s","h">>
S_English == <<"E","n","g","l","i","s","h">>
S_chinese == <<"c","h","i","n","e","s","e">>
S_markdown == <<"m","a","r","k","d","o","w","n">>
S_json == <<"j","s","o","n">>
S_JSON == <<"J","S","O","N">>
S_txt == <<"t","x","t">>
S_xml == <<"x","m","l">>
S_empty == <<>>

UpperChars == <<"A","B","C","D","E","F","G","H","I","J","K","L","M",
                "N","O","P","Q","R","S","T","U","V","W","X","Y","Z">>
LowerChars == <<"a","b","c","d","e","f","g","h","i","j","k","l","m",
                "n","o","p","q","r","s","t","u","v","w","x","y","z">>

LowerChar(c) ==
    IF \E i \in DOMAIN UpperChars : UpperChars[i] = c
    THEN LowerChars[CHOOSE i \in DOMAIN UpperChars : UpperChars[i] = c]
    ELSE c

\* str.lower()
Lower(s) == [i \in DOMAIN s |-> LowerChar(s[i])]

\* keyword.replace(" ", "_").replace("/", "_").replace("\\", "_")
SafeKeyword(k) == [i \in DOMAIN k |-> IF k[i] \in {" ", "/", "\\"} THEN "_" ELSE k[i]]

EmptyMap == [x \in {} |-> 0]

(* ------------------------------ inputs --------------------------------- *)
Keywords == { <<"a"," ","b">>, <<"a","_","b">> }

KeywordLists == UNION { [1..n -> Keywords] : n \in 0..MaxKeywords }

DepthInputs == 0..MaxDepth

FormatValues == {S_markdown, S_json, S_txt, S_xml}
FormatInputs == {S_empty, S_JSON, S_xml}
LanguageValues == {S_english, S_English, S_chinese}
LanguageInputs == {S_empty, S_chinese}
FocusValues == { <<"f">> }

Fallback == "Could not extract text from search results."
LlmContent == "blog"

\* Shapes of the object agent.run() may hand back: what probing/reading its
\* `text` attribute does, what its `__str__` does, what `messages` does.
NoAttr == [kind |-> "absent", value |-> ""]
NoMessages == [kind |-> "absent", items |-> <<>>]
ResultObjects ==
    { [text |-> [kind |-> "value", value |-> "T"],
       str |-> [kind |-> "value", value |-> "S"], messages |-> NoMessages],
      [text |-> NoAttr,
       str |-> [kind |-> "value", value |-> "S"],
       messages |-> [kind |-> "list", items |-> <<"m1", "m2">>]],
      [text |-> NoAttr,
       str |-> [kind |-> "value", value |-> "S"], messages |-> NoMessages],
      [text |-> NoAttr,
       str |-> [kind |-> "raises", value |-> ""], messages |-> NoMessages],
      [text |-> [kind |-> "raises", value |-> ""],
       str |-> [kind |-> "value", value |-> "S"], messages |-> NoMessages],
      [text |-> NoAttr, str |-> [kind |-> "hidden", value |-> ""],
       messages |-> [kind |-> "list", items |-> <<"m1", "m2">>]],
      [text |-> NoAttr, str |-> [kind |-> "hidden", value |-> ""],
       messages |-> [kind |-> "raises", items |-> <<>>]] }

NoResult == [text |-> NoAttr, str |-> [kind |-> "hidden", value |-> ""],
             messages |-> NoMessages]

(* ------------------------- configuration ------------------------------- *)
default_options ==
    [depth |-> DefaultDepth, output_format |-> S_markdown, output_dir |-> ".",
     max_results |-> DefaultMaxResults, focus_areas |-> <<>>,
     language |-> S_english, blog_style |-> FALSE]

\* options = {**default_options, **options}
MergeOptions(supplied) ==
    [k \in DOMAIN default_options \cup DOMAIN supplied |->
        IF k \in DOMAIN supplied THEN supplied[k] ELSE default_options[k]]

\* depth_level = min(max(options["depth"], 1), 3)
DepthLevel(d) ==
    LET lo == IF d > 1 THEN d ELSE 1
    IN  IF lo < 3 THEN lo ELSE 3

\* depth_desc = {1: "briefly", 2: "thoroughly", 3: "exhaustively"}
AdvDepthDesc(level) ==
    CASE level = 1 -> "briefly" [] level = 2 -> "thoroughly" [] level = 3 -> "exhaustively"

AdvTask(keyword, opts) ==
    [adverb |-> AdvDepthDesc(DepthLevel(opts.depth)), keyword |-> keyword,
     max_results |-> opts.max_results, focus |-> opts.focus_areas]

\* depth_desc = "thoroughly" if depth >= 2 else "briefly"
DeepDepthDesc(depth) == IF depth >= 2 THEN "thoroughly" ELSE "briefly"

DeepTask(keyword, depth) ==
    [adverb |-> DeepDepthDesc(depth), keyword |-> keyword,
     max_results |-> 0, focus |-> <<>>]

NoTask == [adverb |-> "", keyword |-> <<>>, max_results |-> 0, focus |-> <<>>]

\* main(): output_format = format_input.lower() if ... in format_options else "markdown"
MainOutputFormat(input) ==
    IF Lower(input) \in {S_markdown, S_json, S_txt} THEN Lower(input) ELSE S_markdown

\* main(): language = language_input.strip() if language_input.strip() else "english"
\* (the inputs modelled carry no surrounding blanks)
MainLanguage(input) == IF input # S_empty THEN input ELSE S_english

\* main(): the options record built from the prompts
MainOptions(depth, focus, fmt_input, language, blog) ==
    [depth |-> depth, output_format |-> MainOutputFormat(fmt_input),
     focus_areas |-> focus, output_dir |-> "search_results",
     language |-> language, blog_style |-> blog]

(* ------------------------- result extraction --------------------------- *)
Extracted(t) == [ok |-> TRUE, text |-> t]
ExtractionRaised == [ok |-> FALSE, text |-> ""]

\* The hasattr chain: only the messages branch is inside try/except.
ExtractText(r) ==
    IF r.text.kind = "raises" THEN ExtractionRaised
    ELSE IF r.text.kind = "value" THEN Extracted(r.text.value)
    ELSE IF r.str.kind # "hidden"
         THEN IF r.str.kind = "raises" THEN ExtractionRaised
              ELSE Extracted(r.str.value)
    ELSE IF r.messages.kind = "raises" THEN Extracted(Fallback)
    ELSE IF r.messages.kind = "list" /\ r.messages.items # <<>>
         THEN Extracted(r.messages.items[Len(r.messages.items)])
    ELSE Extracted(Fallback)

\* the same test without .lower()
NeedsTransformCaseSensitive(blog_style, language) ==
    blog_style \/ language # S_english

\* if blog_style or language.lower() != "english"
NeedsTransform(blog_style, language) ==
    blog_style \/ Lower(language) # S_english

(* ----------------------------- output files ---------------------------- *)
S_md == <<"m","d">>

\* "not output_file": the caller of the single-keyword variant gave no path
NoPath == [dir |-> "", stem |-> <<>>, ts |-> 0 - 1, ext |-> <<>>]
GivenPath == [dir |-> "", stem |-> <<"o","u","t">>, ts |-> 0 - 1, ext |-> S_md]

\* os.path.join(output_dir, f"{safe_keyword}_{timestamp}.{ext}")
AdvOutputFile(keyword, opts, ts) ==
    [dir |-> opts.output_dir, stem |-> SafeKeyword(keyword), ts |-> ts,
     ext |-> IF opts.output_format = S_json THEN S_json
             ELSE IF opts.output_format = S_markdown THEN S_md ELSE S_txt]

\* What is written into the file: the json record, or header lines and body.
AdvFileContent(keyword, opts, text, dur, ts) ==
    IF opts.output_format = S_json
    THEN [kind |-> "json", keyword |-> keyword, timestamp |-> ts, body |-> text,
          metadata |-> [depth |-> opts.depth, focus_areas |-> opts.focus_areas,
                        duration_seconds |-> dur, language |-> opts.language,
                        blog_style |-> opts.blog_style]]
    ELSE [kind |-> "text",
          header |-> IF opts.blog_style THEN "none"
                     ELSE IF opts.output_format = S_markdown THEN "markdown"
                     ELSE "txt",
          keyword |-> keyword, timestamp |-> ts,
          focus |-> IF opts.blog_style THEN <<>> ELSE opts.focus_areas,
          body |-> text]

\* output_file = f"{safe_keywords}_{timestamp}.md" unless the caller gave one
DeepOutputFile(keyword, opts, ts) ==
    IF opts.output_file = NoPath
    THEN [dir |-> "", stem |-> SafeKeyword(keyword), ts |-> ts, ext |-> S_md]
    ELSE opts.output_file

DeepFileContent(keyword, opts, text, ts) ==
    [kind |-> "text", header |-> IF opts.blog_style THEN "none" ELSE "markdown",
     keyword |-> keyword, timestamp |-> ts, focus |-> <<>>, body |-> text]

\* open(output_file, "w") ... f.write(...)
WriteFile(fs, path, content) ==
    [p \in DOMAIN fs \cup {path} |-> IF p = path THEN content ELSE fs[p]]

\* results[keyword] = {...}
StoreResult(rs, keyword, path, dur) ==
    [k \in DOMAIN rs \cup {keyword} |->
        IF k = keyword THEN [output_file |-> path, duration_seconds |-> dur]
        ELSE rs[k]]

Event(e, k) == [ev |-> e, k |-> k]
Call(svc, k) == [svc |-> svc, k |-> k]

(* ------------------------------- Init ---------------------------------- *)
NotAsked == [asked |-> FALSE, text |-> <<>>]

\* the caller's options dict: None, or any subset of the keys
SuppliedOptions ==
    {EmptyMap} \cup { [depth |-> d] : d \in DepthInputs }
    \cup { [depth |-> d, output_format |-> f] :
            d \in DepthInputs, f \in FormatValues }
    \cup { [output_format |-> f, focus_areas |-> fa, language |-> l,
            blog_style |-> b] :
            f \in FormatValues, fa \in FocusValues,
            l \in LanguageValues, b \in BOOLEAN }

PromptedOptions ==
    { [fi |-> fi, opts |-> MainOptions(d, fa, fi, MainLanguage(l), b)] :
        d \in DepthInputs, fa \in FocusValues, fi \in FormatInputs,
        l \in LanguageInputs, b \in BOOLEAN }

DeepArguments ==
    { [depth |-> d, output_file |-> o, language |-> l, blog_style |-> b] :
        d \in DepthInputs, o \in {NoPath, GivenPath},
        l \in LanguageValues, b \in BOOLEAN }

InitCommon ==
    /\ idx = 1
    /\ inflight = {}
    /\ trace = <<>>
    /\ now = 0
    /\ start_time = 0
    /\ duration = 0
    /\ task = NoTask
    /\ result = NoResult
    /\ result_text = ""
    /\ files = EmptyMap
    /\ output_file = NoPath
    /\ results = EmptyMap
    /\ outcome = "running"

\* AdvancedSearchAgent.search_and_summarize(keywords, options) called directly
InitAdvancedCall ==
    /\ variant = "advanced"
    /\ format_input = NotAsked
    /\ keywords \in KeywordLists
    /\ \E supplied \in SuppliedOptions : options = MergeOptions(supplied)
    /\ pc = "loop"

\* advanced main(): options come from the prompts
InitAdvancedMain ==
    /\ variant = "advanced"
    /\ keywords \in KeywordLists \ {<<>>}
    /\ \E p \in PromptedOptions :
          /\ format_input = [asked |-> TRUE, text |-> p.fi]
          /\ options = MergeOptions(p.opts)
    /\ pc = "loop"

\* DeepSearchAgent.search_and_summarize(keywords, depth, output_file, language, blog_style)
InitDeep ==
    /\ variant = "deep"
    /\ format_input = NotAsked
    /\ \E k \in Keywords : keywords = <<k>>
    /\ options \in DeepArguments
    /\ pc = "start"

Init == InitCommon /\ (InitAdvancedCall \/ InitAdvancedMain \/ InitDeep)

(* --------------------- the clock: datetime.now() ----------------------- *)
\* Time passes while an external call is outstanding.
Elapsed == 0..(MaxTime - now)

(* ------------------------- advanced variant ---------------------------- *)
\* lines 135-187: write the file, record the result, go to the next keyword
AdvFinish(text, dur, ts, log) ==
    LET keyword == keywords[idx]
        path == AdvOutputFile(keyword, options, ts)
    IN  /\ files' = WriteFile(files, path, AdvFileContent(keyword, options, text, dur, ts))
        /\ output_file' = path
        /\ results' = StoreResult(results, keyword, path, dur)
        /\ trace' = log \o <<Event("write", idx)>>
        /\ idx' = idx + 1
        /\ pc' = "loop"

\* the loop starting the next agent call without awaiting the current one
AdvStartKeywordNoAwait ==
    /\ variant = "advanced" /\ outcome = "running"
    /\ \/ /\ pc = "loop" /\ idx <= Len(keywords)
          /\ task' = AdvTask(keywords[idx], options)
          /\ start_time' = now
          /\ inflight' = inflight \cup {Call("agent", idx)}
          /\ trace' = Append(trace, Event("agent_call", idx))
          /\ pc' = "await_agent"
       \/ /\ pc = "await_agent" /\ idx + 1 <= Len(keywords)
          /\ Call("agent", idx + 1) \notin inflight
          /\ task' = AdvTask(keywords[idx + 1], options)
          /\ start_time' = now
          /\ inflight' = inflight \cup {Call("agent", idx + 1)}
          /\ trace' = Append(trace, Event("agent_call", idx + 1))
          /\ pc' = pc
    /\ UNCHANGED <<variant, format_input, keywords, options, idx, now, duration,
                   result, result_text, files, output_file, results, outcome>>

\* for keyword in keywords: build the task, start the clock, await agent.run()
AdvStartKeyword ==
    /\ variant = "advanced" /\ outcome = "running"
    /\ pc = "loop" /\ idx <= Len(keywords)
    /\ task' = AdvTask(keywords[idx], options)
    /\ start_time' = now
    /\ inflight' = inflight \cup {Call("agent", idx)}
    /\ trace' = Append(trace, Event("agent_call", idx))
    /\ pc' = "await_agent"
    /\ UNCHANGED <<variant, format_input, keywords, options, idx, now, duration,
                   result, result_text, files, output_file, results, outcome>>

\* agent.run() returns: duration, extraction, then either llm.invoke() is
\* issued or the file is written
AdvAgentReturn ==
    /\ variant = "advanced" /\ outcome = "running" /\ pc = "await_agent"
    /\ Call("agent", idx) \in inflight
    /\ \E r \in ResultObjects, dt \in Elapsed :
        LET end_time == now + dt
            dur == end_time - start_time
            x == ExtractText(r)
            log == Append(trace, Event("agent_return", idx))
        IN  /\ now' = end_time
            /\ duration' = dur
            /\ result' = r
            /\ IF ~x.ok
               THEN /\ outcome' = "raised"
                    /\ pc' = "done"
                    /\ inflight' = inflight \ {Call("agent", idx)}
                    /\ trace' = Append(log, Event("extract_raise", idx))
                    /\ UNCHANGED <<result_text, files, output_file, results, idx>>
               ELSE IF NeedsTransform(options.blog_style, options.language)
               THEN /\ result_text' = x.text
                    /\ inflight' = (inflight \ {Call("agent", idx)}) \cup {Call("llm", idx)}
                    /\ pc' = "await_llm"
                    /\ trace' = log \o <<Event("extracted", idx), Event("llm_call", idx)>>
                    /\ UNCHANGED <<files, output_file, results, idx, outcome>>
               ELSE /\ result_text' = x.text
                    /\ inflight' = inflight \ {Call("agent", idx)}
                    /\ AdvFinish(x.text, dur, end_time, Append(log, Event("extracted", idx)))
                    /\ UNCHANGED outcome
    /\ UNCHANGED <<variant, format_input, keywords, options, start_time, task>>

\* the raise caught inside the loop, which then goes on to the next keyword
AdvAgentRaiseSwallowed ==
    /\ variant = "advanced" /\ outcome = "running" /\ pc = "await_agent"
    /\ Call("agent", idx) \in inflight
    /\ \E dt \in Elapsed : now' = now + dt
    /\ inflight' = inflight \ {Call("agent", idx)}
    /\ trace' = Append(trace, Event("agent_raise", idx))
    /\ idx' = idx + 1
    /\ pc' = "loop"
    /\ UNCHANGED <<variant, format_input, keywords, options, start_time, duration,
                   task, result, result_text, files, output_file, results, outcome>>

\* agent.run() raises: nothing catches it, the coroutine ends
AdvAgentRaise ==
    /\ variant = "advanced" /\ outcome = "running" /\ pc = "await_agent"
    /\ Call("agent", idx) \in inflight
    /\ \E dt \in Elapsed : now' = now + dt
    /\ inflight' = inflight \ {Call("agent", idx)}
    /\ trace' = Append(trace, Event("agent_raise", idx))
    /\ outcome' = "raised"
    /\ pc' = "done"
    /\ UNCHANGED <<variant, format_input, keywords, options, idx, start_time,
                   duration, task, result, result_text, files, output_file, results>>

\* llm.invoke() returns: result_text = blog_response.content, then the file
AdvLlmReturn ==
    /\ variant = "advanced" /\ outcome = "running" /\ pc = "await_llm"
    /\ Call("llm", idx) \in inflight
    /\ \E dt \in Elapsed :
          /\ now' = now + dt
          /\ result_text' = LlmContent
          /\ inflight' = inflight \ {Call("llm", idx)}
          /\ AdvFinish(LlmContent, duration, now + dt,
                       Append(trace, Event("llm_return", idx)))
    /\ UNCHANGED <<variant, format_input, keywords, options, start_time, duration,
                   task, result, outcome>>

\* llm.invoke() raises: nothing catches it
AdvLlmRaise ==
    /\ variant = "advanced" /\ outcome = "running" /\ pc = "await_llm"
    /\ Call("llm", idx) \in inflight
    /\ \E dt \in Elapsed : now' = now + dt
    /\ inflight' = inflight \ {Call("llm", idx)}
    /\ trace' = Append(trace, Event("llm_raise", idx))
    /\ outcome' = "raised"
    /\ pc' = "done"
    /\ UNCHANGED <<variant, format_input, keywords, options, idx, start_time,
                   duration, task, result, result_text, files, output_file, results>>

\* the loop is exhausted: return results
AdvReturn ==
    /\ variant = "advanced" /\ outcome = "running"
    /\ pc = "loop" /\ idx > Len(keywords)
    /\ outcome' = "returned"
    /\ pc' = "done"
    /\ UNCHANGED <<variant, format_input, keywords, options, idx, inflight, trace,
                   now, start_time, duration, task, result, result_text, files,
                   output_file, results>>

(* ----------------------- single-keyword variant ------------------------ *)
\* lines 91-107: pick the file name, write the file, return its path
DeepFinish(text, ts, log) ==
    LET keyword == keywords[idx]
        path == DeepOutputFile(keyword, options, ts)
    IN  /\ files' = WriteFile(files, path, DeepFileContent(keyword, options, text, ts))
        /\ output_file' = path
        /\ trace' = log \o <<Event("write", idx)>>
        /\ outcome' = "returned"
        /\ pc' = "done"

\* build the task and await agent.run()
DeepStart ==
    /\ variant = "deep" /\ outcome = "running" /\ pc = "start"
    /\ task' = DeepTask(keywords[idx], options.depth)
    /\ inflight' = inflight \cup {Call("agent", idx)}
    /\ trace' = Append(trace, Event("agent_call", idx))
    /\ pc' = "await_agent"
    /\ UNCHANGED <<variant, format_input, keywords, options, idx, now, start_time,
                   duration, result, result_text, files, output_file, results, outcome>>

\* agent.run() returns: extraction, then llm.invoke() is issued or the file written
DeepAgentReturn ==
    /\ variant = "deep" /\ outcome = "running" /\ pc = "await_agent"
    /\ Call("agent", idx) \in inflight
    /\ \E r \in ResultObjects, dt \in Elapsed :
        LET x == ExtractText(r)
            log == Append(trace, Event("agent_return", idx))
        IN  /\ now' = now + dt
            /\ result' = r
            /\ IF ~x.ok
               THEN /\ outcome' = "raised"
                    /\ pc' = "done"
                    /\ inflight' = inflight \ {Call("agent", idx)}
                    /\ trace' = Append(log, Event("extract_raise", idx))
                    /\ UNCHANGED <<result_text, files, output_file>>
               ELSE IF NeedsTransform(options.blog_style, options.language)
               THEN /\ result_text' = x.text
                    /\ inflight' = (inflight \ {Call("agent", idx)}) \cup {Call("llm", idx)}
                    /\ pc' = "await_llm"
                    /\ trace' = log \o <<Event("extracted", idx), Event("llm_call", idx)>>
                    /\ UNCHANGED <<files, output_file, outcome>>
               ELSE /\ result_text' = x.text
                    /\ inflight' = inflight \ {Call("agent", idx)}
                    /\ DeepFinish(x.text, now + dt, Append(log, Event("extracted", idx)))
    /\ UNCHANGED <<variant, format_input, keywords, options, idx, start_time,
                   duration, task, results>>

\* agent.run() raises: nothing catches it
DeepAgentRaise ==
    /\ variant = "deep" /\ outcome = "running" /\ pc = "await_agent"
    /\ Call("agent", idx) \in inflight
    /\ \E dt \in Elapsed : now' = now + dt
    /\ inflight' = inflight \ {Call("agent", idx)}
    /\ trace' = Append(trace, Event("agent_raise", idx))
    /\ outcome' = "raised"
    /\ pc' = "done"
    /\ UNCHANGED <<variant, format_input, keywords, options, idx, start_time,
                   duration, task, result, result_text, files, output_file, results>>

\* llm.invoke() returns: result_text = blog_response.content, then the file
DeepLlmReturn ==
    /\ variant = "deep" /\ outcome = "running" /\ pc = "await_llm"
    /\ Call("llm", idx) \in inflight
    /\ \E dt \in Elapsed :
          /\ now' = now + dt
          /\ result_text' = LlmContent
          /\ inflight' = inflight \ {Call("llm", idx)}
          /\ DeepFinish(LlmContent, now + dt, Append(trace, Event("llm_return", idx)))
    /\ UNCHANGED <<variant, format_input, keywords, options, idx, start_time,
                   duration, task, result, results>>

\* llm.invoke() raises: nothing catches it
DeepLlmRaise ==
    /\ variant = "deep" /\ outcome = "running" /\ pc = "await_llm"
    /\ Call("llm", idx) \in inflight
    /\ \E dt \in Elapsed : now' = now + dt
    /\ inflight' = inflight \ {Call("llm", idx)}
    /\ trace' = Append(trace, Event("llm_raise", idx))
    /\ outcome' = "raised"
    /\ pc' = "done"
    /\ UNCHANGED <<variant, format_input, keywords, options, idx, start_time,
                   duration, task, result, result_text, files, output_file, results>>

Next ==
    \/ AdvStartKeyword
    \/ AdvAgentReturn
    \/ AdvAgentRaise
    \/ AdvLlmReturn
    \/ AdvLlmRaise
    \/ AdvReturn
    \/ DeepStart
    \/ DeepAgentReturn
    \/ DeepAgentRaise
    \/ DeepLlmReturn
    \/ DeepLlmRaise

Spec == Init /\ [][Next]_vars

TypeOK ==
    /\ variant \in {"advanced", "deep"}
    /\ pc \in {"loop", "start", "await_agent", "await_llm", "done"}
    /\ outcome \in {"running", "returned", "raised"}
    /\ idx \in 1..(Len(keywords) + 1)
    /\ now \in 0..MaxTime

(* ---------------------------- properties ------------------------------ *)
Positions(e, k) == { p \in DOMAIN trace : trace[p] = Event(e, k) }
Happened(e, k) == Positions(e, k) # {}
Before(e, k, p) == \E q \in Positions(e, k) : q < p

\* the state right after the extraction step: result_text is the extracted text
JustExtracted ==
    /\ Len(trace) >= 2
    /\ \/ trace[Len(trace)].ev = "llm_call"
       \/ trace[Len(trace)].ev = "write" /\ trace[Len(trace) - 1].ev = "extracted"

NonEmptyMessages(r) == r.messages.kind = "list" /\ r.messages.items # <<>>

\* C1: in both variants the extracted text is `.text` when the result has it,
\* the content of the last message when it has only a non-empty message list,
\* and the fallback string when it has neither.
C1_ExtractionByShape ==
    JustExtracted =>
        /\ result.text.kind = "value" => result_text = result.text.value
        /\ (result.text.kind = "absent" /\ NonEmptyMessages(result))
              => result_text = result.messages.items[Len(result.messages.items)]
        /\ (result.text.kind = "absent" /\ result.messages.kind = "absent")
              => result_text = Fallback

AccessRaises(r) ==
    r.text.kind = "raises" \/ r.str.kind = "raises" \/ r.messages.kind = "raises"

\* C2: an error raised while extracting the text never leaves
\* search_and_summarize; the fallback string becomes the working text.
C2_ExtractionErrorSwallowed ==
    /\ \A p \in DOMAIN trace : trace[p].ev # "extract_raise"
    /\ (JustExtracted /\ AccessRaises(result)) => result_text = Fallback

\* C3: in the multi-keyword variant at most one external call is in flight,
\* and the agent call of a keyword is issued only after the previous keyword's
\* agent call, its transformation call (if any) and its file write completed.
C3_CallsSequential ==
    variant = "advanced" =>
        /\ Cardinality(inflight) <= 1
        /\ \A p \in DOMAIN trace :
              (trace[p].ev = "agent_call" /\ trace[p].k > 1) =>
                  LET i == trace[p].k - 1
                  IN  /\ Before("agent_return", i, p)
                      /\ Happened("llm_call", i) => Before("llm_return", i, p)
                      /\ Before("write", i, p)

C3_Witness ==
    /\ variant = "advanced"
    /\ inflight = {Call("agent", 2)}
    /\ Happened("llm_return", 1)
    /\ Happened("write", 1)

\* C4: the depth of the resolved options record of the multi-keyword variant is
\* in {1,2,3}, and that is the depth written to metadata.depth of the JSON file.
C4_OptionsDepthClamped ==
    (variant = "advanced" /\ trace # <<>>) =>
        /\ options.depth \in {1, 2, 3}
        /\ \A f \in DOMAIN files :
              files[f].kind = "json" => files[f].metadata.depth \in {1, 2, 3}

CallRaised(p) == trace[p].ev \in {"agent_raise", "llm_raise"}

\* C5: in the multi-keyword variant an exception of agent.run() or
\* llm.invoke() for keyword k ends the run: it is the last event, nothing is
\* in flight, no file is written for k or a later keyword, nothing is returned.
C5_CallFailureEndsRun ==
    variant = "advanced" =>
        \A p \in DOMAIN trace :
            CallRaised(p) =>
                /\ p = Len(trace)
                /\ inflight = {}
                /\ outcome = "raised"
                /\ \A q \in DOMAIN trace :
                      trace[q].ev = "write" => trace[q].k < trace[p].k
                /\ \A j \in trace[p].k .. Len(keywords) :
                      Cardinality(Positions("agent_call", j)) <= (IF j = trace[p].k THEN 1 ELSE 0)

C5_Witness ==
    /\ variant = "advanced"
    /\ Happened("write", 1)
    /\ Happened("llm_raise", 2)
    /\ outcome = "raised"

Distinct(seq) == \A i, j \in DOMAIN seq : i # j => seq[i] # seq[j]
NoFailure == \A p \in DOMAIN trace :
                trace[p].ev \notin {"agent_raise", "llm_raise", "extract_raise"}

\* C6: for pairwise-distinct keywords and no failing call the returned mapping
\* has one entry per keyword with a non-negative duration, and the keywords'
\* output files are pairwise different, none overwriting another.
C6_OneFilePerKeyword ==
    (variant = "advanced" /\ outcome = "returned" /\ Distinct(keywords) /\ NoFailure) =>
        /\ Cardinality(DOMAIN results) = Len(keywords)
        /\ \A k \in DOMAIN results : results[k].duration_seconds >= 0
        /\ \A k1, k2 \in DOMAIN results :
              k1 # k2 => results[k1].output_file # results[k2].output_file
        /\ Cardinality(DOMAIN files) = Len(keywords)

TransformRequested == options.blog_style \/ Lower(options.language) # S_english

C8_AdverbByDepth ==
    (task # NoTask /\ options.depth \in {1, 2, 3}) =>
        task.adverb = (CASE options.depth = 1 -> "briefly"
                         [] options.depth = 2 -> "thoroughly"
                         [] options.depth = 3 -> "exhaustively")

ValidFormats == {S_markdown, S_json, S_txt}
InvalidFormatGiven ==
    \/ format_input.asked /\ Lower(format_input.text) \notin ValidFormats
    \/ ~format_input.asked /\ options.output_format \notin ValidFormats

\* C9: an output format that is none of markdown/json/txt, typed at the prompt
\* or passed in the options, yields the markdown default: a file with the md
\* extension and, without blog_style, the markdown header.
C9_InvalidFormatIsMarkdown ==
    (variant = "advanced" /\ InvalidFormatGiven) =>
        \A f \in DOMAIN files :
            /\ f.ext = S_md
            /\ files[f].kind = "text"
            /\ ~options.blog_style => files[f].header = "markdown"

AgentCallOrder == SelectSeq(trace, LAMBDA e : e.ev = "agent_call")

\* C10: when no agent.run() or llm.invoke() call raises, the multi-keyword
\* run ends by returning the mapping, after one agent call per list element
\* in list order and one file write per list element.
C10_RunCompletes ==
    (variant = "advanced" /\ pc = "done"
        /\ \A p \in DOMAIN trace : ~CallRaised(p)) =>
        /\ outcome = "returned"
        /\ AgentCallOrder = [i \in 1..Len(keywords) |-> Event("agent_call", i)]
        /\ \A i \in 1..Len(keywords) : Cardinality(Positions("write", i)) = 1

====
